---- MODULE Spec2Model ----
(***************************************************************************)
(* Model of the MusicBrainz search page (src/src/app/search/page.tsx) and  *)
(* of the recording detail page (src/unnamed/part_000).                    *)
(*                                                                         *)
(* Strings are sequences of one-character strings, so that trim,           *)
(* toLowerCase, includes, length and the lexical comparison of the code    *)
(* are computed and not assumed.  An optional value (undefined / null in   *)
(* the code) is a sequence of length 0 (None) or 1 (Some(v)).              *)
(***************************************************************************)
EXTENDS Integers, Sequences, FiniteSets, TLC

None == <<>>

Some(v) == <<v>>

IsSome(o) == Len(o) = 1

Val(o) == o[1]

(***************************************************************************)
(* String primitives                                                       *)
(***************************************************************************)

\* the characters of the model in UTF-16 code unit order (page.tsx:86, 265)
CharOrder ==
  <<" ", "-", "0", "1", "2", "3", "4", "5", "6", "7", "8", "9",
    "A", "B", "C", "D", "E", "F", "G", "H", "I", "J", "K", "L", "M",
    "N", "O", "P", "Q", "R", "S", "T", "U", "V", "W", "X", "Y", "Z",
    "a", "b", "c", "d", "e", "f", "g", "h", "i", "j", "k", "l", "m",
    "n", "o", "p", "q", "r", "s", "t", "u", "v", "w", "x", "y", "z">>

CodeOf(c) == CHOOSE i \in DOMAIN CharOrder : CharOrder[i] = c

UpperChars == SubSeq(CharOrder, 13, 38)

LowerChars == SubSeq(CharOrder, 39, 64)

\* String.prototype.toLowerCase on one character
LowerChar(c) ==
  IF \E k \in DOMAIN UpperChars : UpperChars[k] = c
  THEN LowerChars[CHOOSE k \in DOMAIN UpperChars : UpperChars[k] = c]
  ELSE c

toLowerCase(s) == [i \in DOMAIN s |-> LowerChar(s[i])]

IsSpace(c) == c = " "

\* String.prototype.trim: what lies between the first and the last non-space character
trim(s) ==
  LET kept == {i \in DOMAIN s : ~IsSpace(s[i])}
  IN IF kept = {} THEN <<>>
     ELSE SubSeq(s, CHOOSE i \in kept : \A j \in kept : i <= j,
                    CHOOSE i \in kept : \A j \in kept : i >= j)

\* String.prototype.includes
includes(h, n) ==
  \E i \in 0..(Len(h) - Len(n)) : SubSeq(h, i + 1, i + Len(n)) = n

\* a < b on strings: the first differing code unit decides, a proper prefix is smaller
strLess(a, b) ==
  LET n == IF Len(a) < Len(b) THEN Len(a) ELSE Len(b)
      diff == {i \in 1..n : a[i] # b[i]}
      k == CHOOSE i \in diff : \A j \in diff : i <= j
  IN IF diff = {} THEN Len(a) < Len(b) ELSE CodeOf(a[k]) < CodeOf(b[k])

RECURSIVE joinFrom(_, _, _)
joinFrom(parts, sep, i) ==
  IF i = Len(parts) THEN parts[i] ELSE parts[i] \o sep \o joinFrom(parts, sep, i + 1)

\* Array.prototype.join
join(parts, sep) == IF parts = <<>> THEN <<>> ELSE joinFrom(parts, sep, 1)

MaxDateKey == <<"9", "9", "9", "9", "-", "9", "9", "-", "9", "9">>

normalizePartialDate(date) ==
  IF Len(date) = 4 THEN date \o <<"-", "0", "0", "-", "0", "0">>
  ELSE IF Len(date) = 7 THEN date \o <<"-", "0", "0">>
  ELSE date

normalizeForCompare(value) == toLowerCase(trim(value))

includesAny(haystack, needles) ==
  LET h == normalizeForCompare(haystack)
  IN \E k \in DOMAIN needles : includes(h, needles[k])

(***************************************************************************)
(* Release scoring (page.tsx:172-228)                                      *)
(***************************************************************************)

W_bootleg == <<"b", "o", "o", "t", "l", "e", "g">>

W_official == <<"o", "f", "f", "i", "c", "i", "a", "l">>

W_compilation == <<"c", "o", "m", "p", "i", "l", "a", "t", "i", "o", "n">>

W_live == <<"l", "i", "v", "e">>

W_remix == <<"r", "e", "m", "i", "x">>

W_soundtrack == <<"s", "o", "u", "n", "d", "t", "r", "a", "c", "k">>

W_album == <<"a", "l", "b", "u", "m">>

W_single == <<"s", "i", "n", "g", "l", "e">>

W_ep == <<"e", "p">>

reissueTerms ==
  <<<<"r", "e", "m", "a", "s", "t", "e", "r">>,
    <<"r", "e", "m", "a", "s", "t", "e", "r", "e", "d">>,
    <<"d", "e", "l", "u", "x", "e">>,
    <<"e", "x", "p", "a", "n", "d", "e", "d">>,
    <<"a", "n", "n", "i", "v", "e", "r", "s", "a", "r", "y">>,
    <<"e", "d", "i", "t", "i", "o", "n">>,
    <<"r", "e", "i", "s", "s", "u", "e">>,
    <<"b", "o", "n", "u", "s">>>>

secondaryTerms == SubSeq(reissueTerms, 1, 7)

\* group?.field : undefined when the release has no release-group
GroupField(r, f) == IF IsSome(r.rg) THEN Val(r.rg)[f] ELSE None

\* [..].filter(v => typeof v === "string" && v.trim().length > 0).join(" ")
combineText(fields) ==
  LET Keep(o) == IsSome(o) /\ Len(trim(Val(o))) > 0
      kept == SelectSeq(fields, Keep)
  IN join([i \in DOMAIN kept |-> Val(kept[i])], <<" ">>)

SeqIncludes(xs, x) == \E i \in DOMAIN xs : xs[i] = x

getReleaseQualityPenalty(r) ==
  LET status == IF IsSome(r.status) THEN normalizeForCompare(Val(r.status)) ELSE <<>>
      pt == GroupField(r, "ptype")
      primaryType == IF IsSome(pt) THEN normalizeForCompare(Val(pt)) ELSE <<>>
      st == GroupField(r, "stypes")
      secondaryTypes ==
        IF IsSome(st) THEN [i \in DOMAIN Val(st) |-> normalizeForCompare(Val(st)[i])] ELSE <<>>
      combinedText ==
        combineText(<<r.title, r.disambiguation, GroupField(r, "title"), GroupField(r, "disambiguation")>>)
  IN (IF status = W_bootleg THEN 100
      ELSE IF Len(status) > 0 /\ status # W_official THEN 15 ELSE 0)
     + (IF SeqIncludes(secondaryTypes, W_compilation) THEN 25 ELSE 0)
     + (IF SeqIncludes(secondaryTypes, W_live) THEN 25 ELSE 0)
     + (IF SeqIncludes(secondaryTypes, W_remix) THEN 20 ELSE 0)
     + (IF SeqIncludes(secondaryTypes, W_soundtrack) THEN 20 ELSE 0)
     + (IF includesAny(combinedText, reissueTerms) THEN 10 ELSE 0)
     + (IF Len(primaryType) > 0 /\ ~SeqIncludes(<<W_album, W_single, W_ep>>, primaryType)
        THEN 8 ELSE 0)

\* !group?.id : true for no group, no id, or the empty string as id
MissingGroupId(r) ==
  LET id == GroupField(r, "id") IN ~IsSome(id) \/ Val(id) = <<>>

\* as getPrimaryReleaseGroupPenalty, but a release without a release-group is not charged
\* for the missing group id
getPrimaryReleaseGroupPenalty_GroupOnly(r) ==
  LET st == GroupField(r, "stypes")
      secondaryTypes == IF IsSome(st) THEN Val(st) ELSE <<>>
      combinedText == combineText(<<r.title, r.disambiguation, GroupField(r, "disambiguation")>>)
  IN (IF IsSome(r.rg) /\ MissingGroupId(r) THEN 5 ELSE 0)
     + (IF Len(secondaryTypes) > 0 THEN 5 ELSE 0)
     + (IF includesAny(combinedText, secondaryTerms) THEN 5 ELSE 0)

getPrimaryReleaseGroupPenalty(r) ==
  LET st == GroupField(r, "stypes")
      secondaryTypes == IF IsSome(st) THEN Val(st) ELSE <<>>
      combinedText == combineText(<<r.title, r.disambiguation, GroupField(r, "disambiguation")>>)
  IN (IF MissingGroupId(r) THEN 5 ELSE 0)
     + (IF Len(secondaryTypes) > 0 THEN 5 ELSE 0)
     + (IF includesAny(combinedText, secondaryTerms) THEN 5 ELSE 0)

(***************************************************************************)
(* Canonical release selection (page.tsx:63-114)                           *)
(***************************************************************************)

\* typeof r.date === "string" ? r.date.trim() : ""
rawDateOf(r) == IF IsSome(r.date) THEN trim(Val(r.date)) ELSE <<>>

\* the date key of pickCanonicalRelease (page.tsx:72-73)
dateKeyOf(r) ==
  LET rawDate == rawDateOf(r)
  IN IF Len(rawDate) > 0 THEN normalizePartialDate(rawDate) ELSE MaxDateKey

\* as pickStep, but a release that ties on all three keys replaces the running best
pickStep_LastWins(st, list, i) ==
  LET r == list[i]
      dateKey == dateKeyOf(r)
      quality == getReleaseQualityPenalty(r)
      primary == getPrimaryReleaseGroupPenalty(r)
  IN IF st.best = 0
       THEN [best |-> i, bestDate |-> dateKey, bestQuality |-> quality, bestPrimary |-> primary]
     ELSE IF dateKey # st.bestDate
       THEN IF strLess(dateKey, st.bestDate)
              THEN [best |-> i, bestDate |-> dateKey, bestQuality |-> quality, bestPrimary |-> primary]
              ELSE st
     ELSE IF quality # st.bestQuality
       THEN IF quality < st.bestQuality
              THEN [st EXCEPT !.best = i, !.bestQuality = quality, !.bestPrimary = primary]
              ELSE st
     ELSE IF primary <= st.bestPrimary
       THEN [st EXCEPT !.best = i, !.bestPrimary = primary]
     ELSE st

\* one iteration of the loop; best is the position of the running best, 0 for null
pickStep(st, list, i) ==
  LET r == list[i]
      dateKey == dateKeyOf(r)
      quality == getReleaseQualityPenalty(r)
      primary == getPrimaryReleaseGroupPenalty(r)
  IN IF st.best = 0
       THEN [best |-> i, bestDate |-> dateKey, bestQuality |-> quality, bestPrimary |-> primary]
     ELSE IF dateKey # st.bestDate
       THEN IF strLess(dateKey, st.bestDate)
              THEN [best |-> i, bestDate |-> dateKey, bestQuality |-> quality, bestPrimary |-> primary]
              ELSE st
     ELSE IF quality # st.bestQuality
       THEN IF quality < st.bestQuality
              THEN [st EXCEPT !.best = i, !.bestQuality = quality, !.bestPrimary = primary]
              ELSE st
     ELSE IF primary # st.bestPrimary
       THEN IF primary < st.bestPrimary
              THEN [st EXCEPT !.best = i, !.bestPrimary = primary]
              ELSE st
     ELSE st

RECURSIVE pickScan(_, _, _)
pickScan(st, list, i) ==
  IF i > Len(list) THEN st ELSE pickScan(pickStep(st, list, i), list, i + 1)

\* position in the list of the release pickCanonicalRelease returns, 0 for null
pickCanonicalIndex(releases) ==
  IF ~IsSome(releases) \/ Len(Val(releases)) = 0 THEN 0
  ELSE pickScan([best |-> 0, bestDate |-> MaxDateKey, bestQuality |-> 9999, bestPrimary |-> 9999],
                Val(releases), 1).best

pickCanonicalRelease(releases) ==
  LET k == pickCanonicalIndex(releases)
  IN IF k = 0 THEN None ELSE Some(Val(releases)[k])

(***************************************************************************)
(* Recording ranking (page.tsx:143-165, 230-272)                           *)
(***************************************************************************)

\* c?.name ?? c?.artist?.name
creditName(c) == IF IsSome(c.name) THEN c.name ELSE c.artistName

isExactArtistMatch(recording, artist) ==
  LET target == normalizeForCompare(artist)
      credits == recording.credits
  IN IF Len(target) = 0 THEN FALSE
     ELSE IF ~IsSome(credits) \/ Len(Val(credits)) = 0 THEN FALSE
     ELSE \E i \in DOMAIN Val(credits) :
            LET name == creditName(Val(credits)[i])
            IN IF ~IsSome(name) \/ Val(name) = <<>> THEN FALSE
               ELSE normalizeForCompare(Val(name)) = target

RECURSIVE earliestScan(_, _, _)
earliestScan(best, list, i) ==
  IF i > Len(list) THEN best
  ELSE LET raw == rawDateOf(list[i])
           norm == normalizePartialDate(raw)
       IN IF Len(raw) = 0 THEN earliestScan(best, list, i + 1)
          ELSE earliestScan(IF strLess(norm, best) THEN norm ELSE best, list, i + 1)

\* as getEarliestReleaseDate, but the empty string stands for "no releases"
getEarliestReleaseDate_EmptyString(releases) ==
  IF ~IsSome(releases) \/ Len(Val(releases)) = 0 THEN <<>>
  ELSE earliestScan(MaxDateKey, Val(releases), 1)

getEarliestReleaseDate(releases) ==
  IF ~IsSome(releases) \/ Len(Val(releases)) = 0 THEN MaxDateKey
  ELSE earliestScan(MaxDateKey, Val(releases), 1)

\* the loop over releases (page.tsx:244-249)
RECURSIVE penaltyScan(_, _, _)
penaltyScan(st, list, i) ==
  IF i > Len(list) THEN st
  ELSE LET q == getReleaseQualityPenalty(list[i])
           p == getPrimaryReleaseGroupPenalty(list[i])
       IN penaltyScan([bestQuality |-> IF q < st.bestQuality THEN q ELSE st.bestQuality,
                       bestPrimaryPenalty |->
                         IF p < st.bestPrimaryPenalty THEN p ELSE st.bestPrimaryPenalty],
                      list, i + 1)

EmptyQualitySentinel == 999

EmptyPrimacySentinel == 99

\* as scoreRecording, but the sentinels of a recording without releases are reset to 0
scoreRecording_ZeroSentinel(rec, artist) ==
  LET releases == IF IsSome(rec.releases) THEN Val(rec.releases) ELSE <<>>
      best == penaltyScan([bestQuality |-> 9999, bestPrimaryPenalty |-> 9999], releases, 1)
  IN [rec |-> rec,
      artistMatch |-> isExactArtistMatch(rec, artist),
      earliestDate |-> getEarliestReleaseDate(rec.releases),
      bestQuality |-> IF best.bestQuality = 9999 THEN 0 ELSE best.bestQuality,
      bestPrimaryPenalty |->
        IF best.bestPrimaryPenalty = 9999 THEN 0 ELSE best.bestPrimaryPenalty]

\* the element of scored for one recording (page.tsx:236-261)
scoreRecording(rec, artist) ==
  LET releases == IF IsSome(rec.releases) THEN Val(rec.releases) ELSE <<>>
      best == penaltyScan([bestQuality |-> 9999, bestPrimaryPenalty |-> 9999], releases, 1)
      bestQuality == best.bestQuality
      bestPrimaryPenalty == best.bestPrimaryPenalty
  IN [rec |-> rec,
      artistMatch |-> isExactArtistMatch(rec, artist),
      earliestDate |-> getEarliestReleaseDate(rec.releases),
      bestQuality |-> IF bestQuality = 9999 THEN EmptyQualitySentinel ELSE bestQuality,
      bestPrimaryPenalty |->
        IF bestPrimaryPenalty = 9999 THEN EmptyPrimacySentinel ELSE bestPrimaryPenalty]

\* String.prototype.localeCompare on recording ids
localeCompare(a, b) == IF strLess(a, b) THEN -1 ELSE IF strLess(b, a) THEN 1 ELSE 0

\* as compareScored, but the earliest date is consulted before the artist match
compareScored_DateFirst(a, b) ==
  IF a.earliestDate # b.earliestDate
    THEN (IF strLess(a.earliestDate, b.earliestDate) THEN -1 ELSE 1)
  ELSE IF a.artistMatch # b.artistMatch THEN (IF a.artistMatch THEN -1 ELSE 1)
  ELSE IF a.bestQuality # b.bestQuality THEN a.bestQuality - b.bestQuality
  ELSE IF a.bestPrimaryPenalty # b.bestPrimaryPenalty
    THEN a.bestPrimaryPenalty - b.bestPrimaryPenalty
  ELSE localeCompare(a.rec.id, b.rec.id)

\* as compareScored, but without the final tie-break on the recording id
compareScored_NoIdTieBreak(a, b) ==
  IF a.artistMatch # b.artistMatch THEN (IF a.artistMatch THEN -1 ELSE 1)
  ELSE IF a.earliestDate # b.earliestDate
    THEN (IF strLess(a.earliestDate, b.earliestDate) THEN -1 ELSE 1)
  ELSE IF a.bestQuality # b.bestQuality THEN a.bestQuality - b.bestQuality
  ELSE IF a.bestPrimaryPenalty # b.bestPrimaryPenalty
    THEN a.bestPrimaryPenalty - b.bestPrimaryPenalty
  ELSE 0

\* the comparator of scored.sort (page.tsx:263-269)
compareScored(a, b) ==
  IF a.artistMatch # b.artistMatch THEN (IF a.artistMatch THEN -1 ELSE 1)
  ELSE IF a.earliestDate # b.earliestDate
    THEN (IF strLess(a.earliestDate, b.earliestDate) THEN -1 ELSE 1)
  ELSE IF a.bestQuality # b.bestQuality THEN a.bestQuality - b.bestQuality
  ELSE IF a.bestPrimaryPenalty # b.bestPrimaryPenalty
    THEN a.bestPrimaryPenalty - b.bestPrimaryPenalty
  ELSE localeCompare(a.rec.id, b.rec.id)

\* Array.prototype.sort is a stable sort: x goes before the first element it is less than
sortInsert(sorted, x) ==
  LET before == {i \in DOMAIN sorted : compareScored(x, sorted[i]) < 0}
      k == IF before = {} THEN Len(sorted) + 1 ELSE CHOOSE i \in before : \A j \in before : i <= j
  IN SubSeq(sorted, 1, k - 1) \o <<x>> \o SubSeq(sorted, k, Len(sorted))

RECURSIVE sortScored(_, _, _)
sortScored(sorted, xs, i) ==
  IF i > Len(xs) THEN sorted ELSE sortScored(sortInsert(sorted, xs[i]), xs, i + 1)

rankRecordings(recordings, artistQuery) ==
  LET artist == trim(artistQuery)
      scored == [i \in DOMAIN recordings |-> scoreRecording(recordings[i], artist)]
      sorted == sortScored(<<>>, scored, 1)
  IN [i \in DOMAIN sorted |-> sorted[i].rec]

(***************************************************************************)
(* Input values: the optional fields of MusicBrainzRecording               *)
(* (page.tsx:6-33), each absent, empty, or one of a few strings            *)
(***************************************************************************)

S_1965 == <<"1", "9", "6", "5">>

S_1965_00_00 == <<"1", "9", "6", "5", "-", "0", "0", "-", "0", "0">>

S_1964_12 == <<"1", "9", "6", "4", "-", "1", "2">>

S_1965_sp == <<" ", "1", "9", "6", "5", " ">>

S_blank == <<" ">>

S_Official == <<"O", "f", "f", "i", "c", "i", "a", "l", " ">>

S_BOOTLEG == <<" ", "B", "O", "O", "T", "L", "E", "G">>

S_promotion == <<"p", "r", "o", "m", "o", "t", "i", "o", "n">>

S_Help == <<"H", "e", "l", "p">>

S_DeluxeEd == <<"H", "e", "l", "p", " ", "D", "e", "l", "u", "x", "e">>

S_BonusCd == <<"b", "o", "n", "u", "s", " ", "c", "d">>

S_Reissue == <<"1", "9", "8", "7", " ", "R", "e", "i", "s", "s", "u", "e">>

S_Album == <<"A", "l", "b", "u", "m">>

S_broadcast == <<"b", "r", "o", "a", "d", "c", "a", "s", "t">>

S_Live == <<"L", "i", "v", "e">>

S_Compilation == <<"C", "o", "m", "p", "i", "l", "a", "t", "i", "o", "n">>

S_demo == <<"d", "e", "m", "o">>

S_Anniversary == <<"A", "n", "n", "i", "v", "e", "r", "s", "a", "r", "y">>

S_g1 == <<"g", "1">>

S_g2 == <<"g", "2">>

Group(id, title, ptype, stypes, disambiguation) ==
  [id |-> id, title |-> title, ptype |-> ptype, stypes |-> stypes,
   disambiguation |-> disambiguation]

Release(title, date, status, disambiguation, rg) ==
  [title |-> title, date |-> date, status |-> status,
   disambiguation |-> disambiguation, rg |-> rg]

ScoreStatuses ==
  {None, Some(<<>>), Some(W_official), Some(S_Official), Some(W_bootleg), Some(S_BOOTLEG),
   Some(S_promotion)}

ScoreTitles == {None, Some(S_blank), Some(S_Help), Some(S_DeluxeEd), Some(S_BonusCd)}

ScoreDisambiguations == {None, Some(S_Reissue)}

ScoreGroupIds == {None, Some(<<>>), Some(S_g1)}

ScoreGroupTitles == {None, Some(S_Anniversary)}

ScorePrimaryTypes == {None, Some(S_Album), Some(W_ep), Some(S_broadcast)}

ScoreSecondaryTypes ==
  {None, Some(<<>>), Some(<<S_Live>>), Some(<<S_demo>>), Some(<<W_remix, S_Compilation>>),
   Some(<<W_compilation, W_live, W_remix, W_soundtrack>>)}

ScoreGroups ==
  {None} \cup
  {Some(Group(id, t, pt, st, None)) :
     id \in ScoreGroupIds, t \in ScoreGroupTitles, pt \in ScorePrimaryTypes,
     st \in ScoreSecondaryTypes}

ScoreReleases ==
  {Release(t, None, s, d, g) :
     t \in ScoreTitles, s \in ScoreStatuses, d \in ScoreDisambiguations, g \in ScoreGroups}

G_comp == Some(Group(Some(S_g2), None, Some(S_Album), Some(<<S_Compilation>>), None))

G_plain == Some(Group(Some(S_g1), None, Some(S_Album), None, None))

PickDates == {None, Some(S_1965), Some(S_1965_00_00), Some(S_1964_12)}

\* quality and primacy penalties 0 and 5, 0 and 0, 15 and 0
PickShapes ==
  {[status |-> Some(W_official), rg |-> None],
   [status |-> Some(W_official), rg |-> G_plain],
   [status |-> Some(S_promotion), rg |-> G_plain]}

PickReleases ==
  {Release(None, d, sh.status, None, sh.rg) : d \in PickDates, sh \in PickShapes}

MaxReleases == 3

SeqsUpTo(S, n) == UNION {[1..k -> S] : k \in 0..n}

PickInputs == {None} \cup {Some(l) : l \in SeqsUpTo(PickReleases, MaxReleases)}

(***************************************************************************)
(* Projection, query building, serialization (page.tsx:116-137, 274-302)   *)
(***************************************************************************)

UnknownArtist == <<"Unknown artist">>

getArtistName(r) ==
  LET credits == r.credits
      names == IF IsSome(credits)
               THEN [i \in DOMAIN Val(credits) |-> creditName(Val(credits)[i])] ELSE <<>>
      Keep(n) == IsSome(n) /\ Len(trim(Val(n))) > 0
      kept == SelectSeq(names, Keep)
  IN IF ~IsSome(credits) \/ Len(Val(credits)) = 0 THEN UnknownArtist
     ELSE IF Len(kept) = 0 THEN UnknownArtist
     ELSE join([i \in DOMAIN kept |-> Val(kept[i])], <<",", " ">>)

toCanonicalMatch(recording) ==
  LET canonicalRelease == pickCanonicalRelease(recording.releases)
      rg == IF IsSome(canonicalRelease) THEN Val(canonicalRelease).rg ELSE None
      releaseGroup ==
        IF IsSome(rg)
        THEN Some([id |-> Val(rg).id, title |-> Val(rg).title,
                   primaryType |-> Val(rg).ptype, secondaryTypes |-> Val(rg).stypes])
        ELSE None
  IN [recordingMbid |-> recording.id, title |-> recording.title,
      artist |-> getArtistName(recording), releaseGroup |-> releaseGroup]

\* value.replaceAll('"', '\\"')
escapeQueryValue(value) ==
  join([i \in DOMAIN value |-> IF value[i] = "\"" THEN <<"\\", "\"">> ELSE <<value[i]>>], <<>>)

buildRecordingSearchQuery(args) ==
  LET title == trim(args.title)
      artist == trim(args.artist)
      p1 == IF Len(title) > 0
            THEN << <<"recording:", "\"">> \o escapeQueryValue(title) \o <<"\"">> >> ELSE <<>>
      p2 == IF Len(artist) > 0
            THEN << <<"artist:", "\"">> \o escapeQueryValue(artist) \o <<"\"">> >> ELSE <<>>
  IN join(p1 \o p2, <<" ", "AND", " ">>)

\* the argument of setSubmittedQuery (page.tsx:320)
submittedQueryOf(args, trimmed) ==
  IF Len(trimmed) > 0
  THEN Some(trim(trim(args.title) \o
                 (IF Len(trim(args.artist)) > 0
                  THEN <<" ", "u2014", " ">> \o trim(args.artist) ELSE <<>>)))
  ELSE None

\* JSON text of a string: quotes and backslashes are escaped
jsonEscape(value) ==
  join([i \in DOMAIN value |-> IF value[i] \in {"\"", "\\"} THEN <<"\\", value[i]>> ELSE <<value[i]>>],
       <<>>)

jsonString(value) == <<"\"">> \o jsonEscape(value) \o <<"\"">>

jsonArray(items) ==
  <<"[">> \o join([i \in DOMAIN items |-> jsonString(items[i])], <<",">>) \o <<"]">>

\* the members that JSON.stringify writes: a member whose value is undefined is left out
jsonMembers(members) ==
  LET Keep(m) == IsSome(m.text)
      kept == SelectSeq(members, Keep)
  IN join([i \in DOMAIN kept |-> jsonString(kept[i].key) \o <<":">> \o Val(kept[i].text)], <<",">>)

\* JSON text of an object
jsonObject(members) ==
  <<"{">> \o (CHOOSE text \in {jsonMembers(ms) : ms \in {members}} : TRUE) \o <<"}">>

\* the JSON text of an optional string, none for undefined
optString(o) == IF IsSome(o) THEN Some(jsonString(Val(o))) ELSE None

\* the JSON text of an optional array of strings, none for undefined
optArray(o) == IF IsSome(o) THEN Some(jsonArray(Val(o))) ELSE None

\* JSON.stringify(nextCanonical) (page.tsx:362)
JSONstringify(m) ==
  LET groupText(g) ==
        jsonObject(<<[key |-> <<"id">>, text |-> optString(g.id)],
                     [key |-> <<"title">>, text |-> optString(g.title)],
                     [key |-> <<"primaryType">>, text |-> optString(g.primaryType)],
                     [key |-> <<"secondaryTypes">>, text |-> optArray(g.secondaryTypes)]>>)
  IN jsonObject(<<[key |-> <<"recordingMbid">>, text |-> Some(jsonString(m.recordingMbid))],
                  [key |-> <<"title">>, text |-> Some(jsonString(m.title))],
                  [key |-> <<"artist">>, text |-> Some(jsonString(m.artist))],
                  [key |-> <<"releaseGroup">>,
                   text |-> Some(IF IsSome(m.releaseGroup) THEN groupText(Val(m.releaseGroup))
                                 ELSE <<"null">>)]>>)

(***************************************************************************)
(* State                                                                   *)
(***************************************************************************)

VARIABLES
  titleQuery,      \* useState "" (page.tsx:305)
  artistQuery,     \* useState "" (page.tsx:306)
  submittedQuery,  \* useState null (page.tsx:307)
  isLoading,       \* useState false (page.tsx:308)
  error,           \* useState null (page.tsx:309)
  canonical,       \* useState null (page.tsx:310)
  storage,         \* sessionStorage entry "musicbrainz_canonical_match"
  inflight,        \* runSearch calls suspended at an await, oldest first
  detailStage,     \* position of RecordingPage: "idle", "fetch", "json", "done"
  detailError,     \* error of RecordingPage (part_000:107)
  detailRecording, \* recording of RecordingPage (part_000:106)
  arg,             \* argument of the function under evaluation
  ret              \* its result, None before the call

pageVars ==
  <<titleQuery, artistQuery, submittedQuery, isLoading, error, canonical, storage, inflight>>

detailVars == <<detailStage, detailError, detailRecording>>

callVars == <<arg, ret>>

vars == <<pageVars, detailVars, callVars>>

Recording(id, credits, releases) ==
  [id |-> id, title |-> S_Help, credits |-> credits, releases |-> releases]

Credit(name, artistName) == [name |-> name, artistName |-> artistName]

S_id1 == <<"0", "a">>

S_id2 == <<"1">>

S_id3 == <<"a">>

S_Ab == <<" ", "A", "b">>

S_ab == <<"a", "b">>

S_b == <<"b">>

S_aBq == <<"a", "B", " ">>

\* a match written by an earlier page instance of the same browser tab
StaleMatch ==
  [recordingMbid |-> S_id3, title |-> S_Help, artist |-> S_b, releaseGroup |-> None]

PageInit ==
  /\ titleQuery = <<>>
  /\ artistQuery = <<>>
  /\ submittedQuery = None
  /\ isLoading = FALSE
  /\ error = None
  /\ canonical = None
  /\ storage \in {None, Some(JSONstringify(StaleMatch))}
  /\ inflight = <<>>

DetailInit ==
  /\ detailStage = "idle"
  /\ detailError = None
  /\ detailRecording = None

NoCall ==
  /\ arg = None
  /\ ret = None

Init == PageInit /\ DetailInit /\ NoCall

(***************************************************************************)
(* SearchPage (page.tsx:304-426)                                           *)
(***************************************************************************)

PageTitles == {<<>>, S_blank, S_Help}

PageArtists == {<<>>, S_blank, S_aBq}

MaxInFlight == 2

\* onChange of the title input (page.tsx:395)
SetTitleQuery(t) ==
  /\ titleQuery' = t
  /\ UNCHANGED <<artistQuery, submittedQuery, isLoading, error, canonical, storage, inflight>>
  /\ UNCHANGED <<detailVars, callVars>>

\* onChange of the artist input (page.tsx:406)
SetArtistQuery(a) ==
  /\ artistQuery' = a
  /\ UNCHANGED <<titleQuery, submittedQuery, isLoading, error, canonical, storage, inflight>>
  /\ UNCHANGED <<detailVars, callVars>>

\* the body of a call that has not received one
NoBody == [kind |-> "none", recordings |-> None]

\* as runSearch, but the empty-query path leaves the session-storage entry in place
runSearch_EmptyKeepsEntry(args) ==
  LET queryString == buildRecordingSearchQuery(args)
      trimmed == trim(queryString)
  IN /\ submittedQuery' = submittedQueryOf(args, trimmed)
     /\ IF Len(trimmed) = 0
        THEN /\ error' = None
             /\ canonical' = None
             /\ UNCHANGED <<isLoading, inflight, storage>>
        ELSE /\ isLoading' = TRUE
             /\ error' = None
             /\ inflight' = Append(inflight, [args |-> args, stage |-> "fetch", body |-> NoBody])
             /\ UNCHANGED <<canonical, storage>>

\* runSearch up to its first await (page.tsx:317-342)
runSearch(args) ==
  LET queryString == buildRecordingSearchQuery(args)
      trimmed == trim(queryString)
  IN /\ submittedQuery' = submittedQueryOf(args, trimmed)
     /\ IF Len(trimmed) = 0
        THEN /\ error' = None
             /\ canonical' = None
             /\ storage' = None
             /\ UNCHANGED <<isLoading, inflight>>
        ELSE /\ isLoading' = TRUE
             /\ error' = None
             /\ inflight' = Append(inflight, [args |-> args, stage |-> "fetch", body |-> NoBody])
             /\ UNCHANGED <<canonical, storage>>

\* as SubmitEnabled, but the button is never disabled
SubmitEnabled_Always == TRUE

\* the submit button is disabled while isLoading (page.tsx:413)
SubmitEnabled == ~isLoading

\* onSubmit of the form (page.tsx:386-389)
Submit ==
  /\ SubmitEnabled
  /\ Len(inflight) < MaxInFlight
  /\ runSearch([title |-> titleQuery, artist |-> artistQuery])
  /\ UNCHANGED <<titleQuery, artistQuery>>
  /\ UNCHANGED <<detailVars, callVars>>

RemoveAt(q, i) == SubSeq(q, 1, i - 1) \o SubSeq(q, i + 1, Len(q))

Statuses == {200, 403, 404, 500}

\* res.ok
IsOk(status) == status >= 200 /\ status <= 299

FetchOutcomes ==
  {[kind |-> "response", status |-> st] : st \in Statuses} \cup {[kind |-> "reject", status |-> 0]}

RequestFailed(status) == <<"Request failed (", ToString(status), ")">>

UserAgentRequired ==
  <<"Request failed (", "403",
    "). MusicBrainz requires a valid User-Agent. Set MUSICBRAINZ_USER_AGENT to something like: MyApp/1.0.0 (you@example.com)">>

FailedToFetch == <<"Failed to fetch">>

UnexpectedToken == <<"Unexpected token">>

QuotaExceeded == <<"The quota has been exceeded.">>

NoCanonicalMatch == <<"No canonical match found.">>

\* as catchFinally, but the catch block does not remove the session-storage entry
catchFinally_KeepsEntry(message, i) ==
  /\ error' = Some(message)
  /\ canonical' = None
  /\ UNCHANGED storage
  /\ isLoading' = FALSE
  /\ inflight' = RemoveAt(inflight, i)

\* catch and finally of runSearch (page.tsx:364-371)
catchFinally(message, i) ==
  /\ error' = Some(message)
  /\ canonical' = None
  /\ storage' = None
  /\ isLoading' = FALSE
  /\ inflight' = RemoveAt(inflight, i)

\* the message thrown for a response that is not ok (page.tsx:344-346)
searchFailureMessage(status) == RequestFailed(status)

\* the fetch of call i settles (page.tsx:337-346)
FetchSettled(i, outcome) ==
  /\ i \in DOMAIN inflight
  /\ inflight[i].stage = "fetch"
  /\ IF outcome.kind = "reject" THEN catchFinally(FailedToFetch, i)
     ELSE IF ~IsOk(outcome.status) THEN catchFinally(searchFailureMessage(outcome.status), i)
     ELSE /\ inflight' = [inflight EXCEPT ![i].stage = "json"]
          /\ UNCHANGED <<isLoading, error, canonical, storage>>
  /\ UNCHANGED <<titleQuery, artistQuery, submittedQuery>>
  /\ UNCHANGED <<detailVars, callVars>>

\* a release-group without id: JSON.stringify leaves the id out
G_noid == Some(Group(None, Some(S_Help), Some(S_Album), Some(<<S_Compilation>>), None))

R_match == Recording(S_id2, Some(<<Credit(Some(S_Ab), None)>>),
                     Some(<<Release(Some(S_Help), Some(S_1965), Some(W_official), None, G_noid)>>))

R_other == Recording(S_id1, Some(<<Credit(None, Some(S_b))>>),
                     Some(<<Release(Some(S_Help), Some(S_1964_12), Some(W_official), None, None)>>))

R_bare == Recording(S_id3, None, None)

Bodies ==
  {[kind |-> "parseError", recordings |-> None]} \cup
  {[kind |-> "data", recordings |-> l] :
     l \in {None, Some(<<>>), Some(<<R_bare>>), Some(<<R_other, R_match>>)}}

\* sessionStorage.setItem may throw when the storage is full or disabled
SetItemOutcomes == {"stored", "throws"}

\* res.json() of call i settles with a parsed body or with a parse error (page.tsx:348)
JsonSettled(i, body) ==
  /\ i \in DOMAIN inflight
  /\ inflight[i].stage = "json"
  /\ inflight' = [inflight EXCEPT ![i].stage = "parsed", ![i].body = body]
  /\ UNCHANGED <<titleQuery, artistQuery, submittedQuery, isLoading, error, canonical, storage>>
  /\ UNCHANGED <<detailVars, callVars>>

\* call i resumes after await res.json() (page.tsx:348-371)
Resumed(i, setItem) ==
  /\ i \in DOMAIN inflight
  /\ inflight[i].stage = "parsed"
  /\ IF inflight[i].body.kind = "parseError" THEN catchFinally(UnexpectedToken, i)
     ELSE LET data == inflight[i].body
              recordings == IF IsSome(data.recordings) THEN Val(data.recordings) ELSE <<>>
          IN \E ranked \in {rankRecordings(recordings, inflight[i].args.artist)} :
               IF Len(ranked) = 0 THEN catchFinally(NoCanonicalMatch, i)
               ELSE IF setItem = "throws" THEN catchFinally(QuotaExceeded, i)
               ELSE \E nextCanonical \in {toCanonicalMatch(ranked[1])} :
                      /\ canonical' = Some(nextCanonical)
                      /\ storage' = Some(JSONstringify(nextCanonical))
                      /\ isLoading' = FALSE
                      /\ inflight' = RemoveAt(inflight, i)
                      /\ UNCHANGED error
  /\ UNCHANGED <<titleQuery, artistQuery, submittedQuery>>
  /\ UNCHANGED <<detailVars, callVars>>

(***************************************************************************)
(* RecordingPage (part_000:69-126)                                         *)
(***************************************************************************)

\* a request for the page starts fetchRecording (part_000:104-110)
DetailLoad ==
  /\ detailStage \in {"idle", "done"}
  /\ detailStage' = "fetch"
  /\ detailError' = None
  /\ detailRecording' = None
  /\ UNCHANGED <<pageVars, callVars>>

\* as detailFailureMessage, but without the branch for status 403
detailFailureMessage_Generic(status) == RequestFailed(status)

\* the message thrown for a response that is not ok (part_000:87-94)
detailFailureMessage(status) ==
  IF status = 403 THEN UserAgentRequired ELSE RequestFailed(status)

\* the fetch of fetchRecording settles (part_000:78-94, 111-113)
DetailFetchSettled(outcome) ==
  /\ detailStage = "fetch"
  /\ IF outcome.kind = "reject"
     THEN detailStage' = "done" /\ detailError' = Some(FailedToFetch)
     ELSE IF ~IsOk(outcome.status)
     THEN detailStage' = "done" /\ detailError' = Some(detailFailureMessage(outcome.status))
     ELSE detailStage' = "json" /\ UNCHANGED detailError
  /\ UNCHANGED detailRecording
  /\ UNCHANGED <<pageVars, callVars>>

\* res.json() of fetchRecording settles (part_000:96, 110-113)
DetailJsonSettled(parsed) ==
  /\ detailStage = "json"
  /\ detailStage' = "done"
  /\ IF parsed THEN detailRecording' = Some(R_match) /\ UNCHANGED detailError
     ELSE detailError' = Some(UnexpectedToken) /\ UNCHANGED detailRecording
  /\ UNCHANGED <<pageVars, callVars>>

Next ==
  \/ \E t \in PageTitles : SetTitleQuery(t)
  \/ \E a \in PageArtists : SetArtistQuery(a)
  \/ Submit
  \/ \E i \in 1..MaxInFlight, o \in FetchOutcomes : FetchSettled(i, o)
  \/ \E i \in 1..MaxInFlight, b \in Bodies : JsonSettled(i, b)
  \/ \E i \in 1..MaxInFlight, si \in SetItemOutcomes : Resumed(i, si)
  \/ DetailLoad
  \/ \E o \in FetchOutcomes : DetailFetchSettled(o)
  \/ \E ok \in BOOLEAN : DetailJsonSettled(ok)

Spec == Init /\ [][Next]_vars

(***************************************************************************)
(* The scorers, the selector and the ranker evaluated on their own: the    *)
(* argument is drawn in the initial state and one step applies the         *)
(* function to it.                                                         *)
(***************************************************************************)

PageIdle == PageInit /\ storage = None /\ DetailInit

\* getReleaseQualityPenalty and getPrimaryReleaseGroupPenalty of one release, and the keys
\* rankRecordings computes for a recording holding that release alone and for one holding none
ScoreCall ==
  /\ ret = None
  /\ ret' = Some([quality |-> getReleaseQualityPenalty(arg),
                  primacy |-> getPrimaryReleaseGroupPenalty(arg),
                  alone |-> scoreRecording(Recording(S_id1, None, Some(<<arg>>)), <<>>),
                  empty |-> scoreRecording(Recording(S_id1, None, Some(<<>>)), <<>>)])
  /\ UNCHANGED <<arg, pageVars, detailVars>>

InitScore == PageIdle /\ arg \in ScoreReleases /\ ret = None

SpecScore == InitScore /\ [][ScoreCall]_vars

\* pickCanonicalRelease of one release list
PickCall ==
  /\ ret = None
  /\ ret' = Some([index |-> pickCanonicalIndex(arg), release |-> pickCanonicalRelease(arg)])
  /\ UNCHANGED <<arg, pageVars, detailVars>>

InitPick == PageIdle /\ arg \in PickInputs /\ ret = None

SpecPick == InitPick /\ [][PickCall]_vars

RankIds == {S_id1, S_id3}

\* for the query " aB": a match through the referenced artist of the second credit, and no
\* match because the empty own name of the credit hides the referenced artist
RankCredits ==
  {Some(<<Credit(Some(S_b), Some(S_ab)), Credit(None, Some(S_Ab))>>),
   Some(<<Credit(Some(<<>>), Some(S_ab))>>)}

RankReleaseLists ==
  {None,
   Some(<<>>),
   Some(<<Release(None, Some(S_1965), Some(W_official), None, G_plain)>>),
   Some(<<Release(None, Some(S_1965_00_00), Some(W_official), None, None)>>),
   Some(<<Release(None, Some(S_1964_12), Some(S_promotion), None, G_plain)>>),
   Some(<<Release(None, Some(S_1965_sp), None, None, G_comp),
          Release(None, None, Some(W_official), None, G_plain)>>),
   Some(<<Release(None, Some(S_blank), Some(W_bootleg), None, G_comp)>>)}

RankRecordings ==
  {Recording(id, c, l) : id \in RankIds, c \in RankCredits, l \in RankReleaseLists}
  \cup {Recording(id, None, None) : id \in RankIds}

RankArtists == {S_blank, S_aBq}

MaxRecordings == 2

RankInputs ==
  [recordings : SeqsUpTo(RankRecordings, MaxRecordings), artistQuery : RankArtists]

\* rankRecordings of one recording list and one artist query
RankCall ==
  /\ ret = None
  /\ ret' = Some(rankRecordings(arg.recordings, arg.artistQuery))
  /\ UNCHANGED <<arg, pageVars, detailVars>>

InitRank == PageIdle /\ arg \in RankInputs /\ ret = None

SpecRank == InitRank /\ [][RankCall]_vars

(***************************************************************************)
(* Properties of the scorers (SpecScore)                                   *)
(***************************************************************************)

Called == ret # None

Result == Val(ret)

\* neither the title nor the disambiguation of r holds a reissue word
NoReissueWording(r) == ~includesAny(combineText(<<r.title, r.disambiguation>>), reissueTerms)

PlainOfficial(r) == r.status = Some(W_official) /\ r.rg = None /\ NoReissueWording(r)

\* C3 as stated: a release with status "official", no release-group and no reissue wording
\* scores 0 on the quality penalty and 0 on the primacy penalty
C3_AsStated ==
  (Called /\ PlainOfficial(arg)) => (Result.quality = 0 /\ Result.primacy = 0)

\* C3 amended: a release with status "official", no release-group and no reissue wording
\* scores 0 on the quality penalty and 5 on the primacy penalty, the charge for a missing
\* release-group id
C3_PlainOfficialScores ==
  (Called /\ PlainOfficial(arg)) => (Result.quality = 0 /\ Result.primacy = 5)

C3_Witness == Called /\ PlainOfficial(arg) /\ arg.title = Some(S_Help)

\* C8: every release scores a quality penalty below the sentinel 999 and a primacy penalty
\* below the sentinel 99, so the keys of a recording without releases differ from the keys of
\* a recording with a release
C8_SentinelsAboveScores ==
  Called =>
    /\ Result.quality < EmptyQualitySentinel
    /\ Result.primacy < EmptyPrimacySentinel
    /\ Result.empty.bestQuality = EmptyQualitySentinel
    /\ Result.empty.bestPrimaryPenalty = EmptyPrimacySentinel
    /\ Result.alone.bestQuality = Result.quality
    /\ Result.alone.bestPrimaryPenalty = Result.primacy
    /\ Result.alone.bestQuality # Result.empty.bestQuality
    /\ Result.alone.bestPrimaryPenalty # Result.empty.bestPrimaryPenalty

\* the release with every penalty at once: 100 + 25 + 25 + 20 + 20 + 10 + 8 and 5 + 5 + 5
C8_Witness == Called /\ Result.quality = 208 /\ Result.primacy = 15

(***************************************************************************)
(* Properties of the selector (SpecPick)                                   *)
(***************************************************************************)

KeyTriple(r) ==
  [date |-> dateKeyOf(r), quality |-> getReleaseQualityPenalty(r),
   primacy |-> getPrimaryReleaseGroupPenalty(r)]

\* lexicographic order on key triples
TripleLess(a, b) ==
  \/ strLess(a.date, b.date)
  \/ a.date = b.date /\ a.quality < b.quality
  \/ a.date = b.date /\ a.quality = b.quality /\ a.primacy < b.primacy

\* the positions whose key triple no other position undercuts
Minimal(keys) == {i \in DOMAIN keys : \A j \in DOMAIN keys : ~TripleLess(keys[j], keys[i])}

FirstOf(S) == CHOOSE i \in S : \A j \in S : i <= j

Bijections(n) == {f \in [1..n -> 1..n] : \A i, j \in 1..n : f[i] = f[j] => i = j}

KeyTriples(list) == [i \in DOMAIN list |-> KeyTriple(list[i])]

DistinctTriples(keys) == \A i, j \in DOMAIN keys : i # j => keys[i] # keys[j]

\* C5: pickCanonicalRelease returns the first release in input order among those whose key
\* triple (date key, quality penalty, primacy penalty) is lexicographically minimal; when the
\* triples are pairwise distinct every permutation of the list has the same winner; an empty or
\* absent list gives none
C5_FirstMinimalTriple ==
  Called =>
    IF ~IsSome(arg) \/ Val(arg) = <<>>
    THEN Result.index = 0 /\ Result.release = None
    ELSE \A list \in {Val(arg)}, keys \in {KeyTriples(Val(arg))} :
           /\ Minimal(keys) # {}
           /\ Result.index = FirstOf(Minimal(keys))
           /\ Result.release = Some(list[Result.index])
           /\ DistinctTriples(keys) =>
                \A f \in Bijections(Len(list)) :
                  pickCanonicalRelease(Some([i \in DOMAIN list |-> list[f[i]]])) = Result.release

\* two different releases tie on the minimal triple behind a worse first release
C5_Witness ==
  /\ Called
  /\ IsSome(arg)
  /\ Len(Val(arg)) = 3
  /\ Minimal(KeyTriples(Val(arg))) = {2, 3}
  /\ Val(arg)[2] # Val(arg)[3]
  /\ Result.index = 2

(***************************************************************************)
(* Properties of the ranker (SpecRank)                                     *)
(***************************************************************************)

\* some artist-credit display name of rec equals the query artist, both trimmed and lowercased,
\* and the query artist is not blank
CreditMatches(rec, q) ==
  /\ trim(q) # <<>>
  /\ IsSome(rec.credits)
  /\ \E i \in DOMAIN Val(rec.credits) :
       LET name == creditName(Val(rec.credits)[i])
       IN IsSome(name) /\ toLowerCase(trim(Val(name))) = toLowerCase(trim(q))

KeysOf(rec) == scoreRecording(rec, trim(arg.artistQuery))

\* C2: in the output of rankRecordings every recording with a matching artist credit stands
\* before every recording without one, whatever their dates and penalties; a blank query
\* artist matches no recording
C2_ArtistMatchFirst ==
  Called =>
    /\ \A i \in DOMAIN arg.recordings :
         KeysOf(arg.recordings[i]).artistMatch = CreditMatches(arg.recordings[i], arg.artistQuery)
    /\ trim(arg.artistQuery) = <<>> =>
         \A i \in DOMAIN arg.recordings : ~KeysOf(arg.recordings[i]).artistMatch
    /\ \A i, j \in DOMAIN Result :
         (CreditMatches(Result[i], arg.artistQuery) /\ ~CreditMatches(Result[j], arg.artistQuery))
           => i < j

\* a matching recording with a later date and a worse quality was moved to the front
C2_Witness ==
  /\ Called
  /\ Len(Result) = 2
  /\ Result # arg.recordings
  /\ CreditMatches(Result[1], arg.artistQuery)
  /\ ~CreditMatches(Result[2], arg.artistQuery)
  /\ strLess(KeysOf(Result[2]).earliestDate, KeysOf(Result[1]).earliestDate)
  /\ KeysOf(Result[2]).bestQuality < KeysOf(Result[1]).bestQuality

NoReleases(rec) == ~IsSome(rec.releases) \/ Val(rec.releases) = <<>>

\* rec has a release whose trimmed date has 4, 7 or 10 characters
HasRealDate(rec) ==
  /\ IsSome(rec.releases)
  /\ \E k \in DOMAIN Val(rec.releases) : Len(rawDateOf(Val(rec.releases)[k])) \in {4, 7, 10}

\* C7: rankRecordings returns every recording it was given, and a recording without releases
\* stands after every recording of the same artist-match status that has a release with a
\* real date
C7_NoReleasesLast ==
  Called =>
    /\ Len(Result) = Len(arg.recordings)
    /\ \A i, j \in DOMAIN Result :
         (/\ NoReleases(Result[i])
          /\ HasRealDate(Result[j])
          /\ CreditMatches(Result[i], arg.artistQuery) = CreditMatches(Result[j], arg.artistQuery))
           => j < i

\* a recording with absent releases and the smaller id was moved behind a dated recording
C7_Witness ==
  /\ Called
  /\ Len(Result) = 2
  /\ Result # arg.recordings
  /\ ~IsSome(Result[2].releases)
  /\ HasRealDate(Result[1])
  /\ strLess(Result[2].id, Result[1].id)
  /\ CreditMatches(Result[1], arg.artistQuery) = CreditMatches(Result[2], arg.artistQuery)

Count(seq, x) == Cardinality({i \in DOMAIN seq : seq[i] = x})

IsPermutationOf(a, b) ==
  /\ Len(a) = Len(b)
  /\ \A i \in DOMAIN a : Count(a, a[i]) = Count(b, a[i])

\* lexicographic order on (artistMatch true first, earliestDate, bestQuality, bestPrimacy, id)
RankKeyLess(a, b) ==
  \/ a.artistMatch /\ ~b.artistMatch
  \/ /\ a.artistMatch = b.artistMatch
     /\ \/ strLess(a.earliestDate, b.earliestDate)
        \/ /\ a.earliestDate = b.earliestDate
           /\ \/ a.bestQuality < b.bestQuality
              \/ /\ a.bestQuality = b.bestQuality
                 /\ \/ a.bestPrimaryPenalty < b.bestPrimaryPenalty
                    \/ /\ a.bestPrimaryPenalty = b.bestPrimaryPenalty
                       /\ strLess(a.rec.id, b.rec.id)

DistinctIds(list) == \A i, j \in DOMAIN list : i # j => list[i].id # list[j].id

\* C9: the output of rankRecordings is a permutation of its input, sorted lexicographically by
\* (artistMatch true first, earliestDate, bestQuality, bestPrimacy, id); for pairwise distinct
\* ids every permutation of the input gives the same output; an empty input gives an empty
\* output
C9_SortedPermutation ==
  Called =>
    /\ IsPermutationOf(Result, arg.recordings)
    /\ \A i, j \in DOMAIN Result : i < j => ~RankKeyLess(KeysOf(Result[j]), KeysOf(Result[i]))
    /\ DistinctIds(arg.recordings) =>
         \A f \in Bijections(Len(arg.recordings)) :
           rankRecordings([i \in DOMAIN arg.recordings |-> arg.recordings[f[i]]],
                          arg.artistQuery) = Result
    /\ arg.recordings = <<>> => Result = <<>>

\* two recordings that tie on the four semantic keys were put in id order
C9_Witness ==
  /\ Called
  /\ Len(Result) = 2
  /\ Result # arg.recordings
  /\ Result[1].releases # Result[2].releases
  /\ KeysOf(Result[1]).artistMatch = KeysOf(Result[2]).artistMatch
  /\ KeysOf(Result[1]).earliestDate = KeysOf(Result[2]).earliestDate
  /\ KeysOf(Result[1]).bestQuality = KeysOf(Result[2]).bestQuality
  /\ KeysOf(Result[1]).bestPrimaryPenalty = KeysOf(Result[2]).bestPrimaryPenalty
  /\ strLess(Result[1].id, Result[2].id)

(***************************************************************************)
(* Properties of the search page and of the detail page (Spec)             *)
(***************************************************************************)

CurrentArgs == [title |-> titleQuery, artist |-> artistQuery]

\* a submission whose effective query is empty
EmptySubmitStep == Submit /\ Len(trim(buildRecordingSearchQuery(CurrentArgs))) = 0

NoRecordings(body) == ~IsSome(body.recordings) \/ Val(body.recordings) = <<>>

\* call i holds a body with at least one recording
HasCandidates(i) ==
  inflight[i].stage = "parsed" /\ inflight[i].body.kind = "data" /\ ~NoRecordings(inflight[i].body)

\* a runSearch call ends on a response that is not ok, a rejected fetch, a body that does not
\* parse, a body without recordings, or a failing write of the entry
FailedStep ==
  \/ \E i \in DOMAIN inflight, o \in FetchOutcomes :
       (o.kind = "reject" \/ ~IsOk(o.status)) /\ FetchSettled(i, o)
  \/ \E i \in DOMAIN inflight :
       \/ ~HasCandidates(i) /\ \E si \in SetItemOutcomes : Resumed(i, si)
       \/ Resumed(i, "throws")

\* a runSearch call ends with a canonical match
MatchStep == \E i \in DOMAIN inflight : HasCandidates(i) /\ Resumed(i, "stored")

\* C1: after a runSearch call without a canonical match the session-storage entry is absent
\* and canonical is null, whatever was stored before; only a call that produces a match
\* writes the entry, and it writes the serialization of the new match
C1_EntryClearedUnlessMatch ==
  [][/\ (EmptySubmitStep \/ FailedStep) => (storage' = None /\ canonical' = None)
     /\ (storage' # storage /\ storage' # None) => MatchStep
     /\ MatchStep => (IsSome(canonical') /\ storage' = Some(JSONstringify(Val(canonical'))))]_vars

\* a search without candidates has ended: the entry, stale or fresh, is gone
C1_Witness ==
  /\ error = Some(NoCanonicalMatch)
  /\ storage = None
  /\ canonical = None
  /\ inflight = <<>>

Embeds(message, status) == \E k \in DOMAIN message : message[k] = ToString(status)

FailureStatuses == {st \in Statuses : ~IsOk(st)}

Response(st) == [kind |-> "response", status |-> st]

\* C4 as stated: runSearch and fetchRecording surface a status that is not ok as a message
\* that embeds the status, and both surface 403 as the message about the missing client
\* identification
C4_AsStated ==
  [][\A st \in FailureStatuses :
       /\ (\E i \in DOMAIN inflight : FetchSettled(i, Response(st)))
            => /\ IsSome(error') /\ Embeds(Val(error'), st)
               /\ st = 403 => error' = Some(UserAgentRequired)
       /\ DetailFetchSettled(Response(st))
            => /\ IsSome(detailError') /\ Embeds(Val(detailError'), st)
               /\ st = 403 => detailError' = Some(UserAgentRequired)]_vars

\* C4 amended: runSearch and fetchRecording surface a status that is not ok as a message that
\* embeds the status; fetchRecording surfaces 403 as the message about the missing client
\* identification, runSearch surfaces 403 as the generic "Request failed (403)"
C4_StatusEmbedded ==
  [][\A st \in FailureStatuses :
       /\ (\E i \in DOMAIN inflight : FetchSettled(i, Response(st)))
            => /\ IsSome(error') /\ Embeds(Val(error'), st)
               /\ error' = Some(<<"Request failed (", ToString(st), ")">>)
       /\ DetailFetchSettled(Response(st))
            => /\ IsSome(detailError') /\ Embeds(Val(detailError'), st)
               /\ st = 403 => detailError' = Some(UserAgentRequired)
               /\ st # 403 => detailError' = Some(<<"Request failed (", ToString(st), ")">>)]_vars

\* both pages have surfaced a 403
C4_Witness ==
  /\ error = Some(<<"Request failed (", "403", ")">>)
  /\ detailError = Some(UserAgentRequired)
  /\ detailStage = "done"

\* C6: at most one runSearch call is suspended at any time, isLoading is true exactly while
\* one is, and the suspended call is the one of the last submission, so no response of an
\* older submission arrives after a newer submission
C6_SingleRequestInFlight ==
  /\ Len(inflight) <= 1
  /\ isLoading <=> inflight # <<>>
  /\ \A i \in DOMAIN inflight :
       submittedQuery =
         submittedQueryOf(inflight[i].args, trim(buildRecordingSearchQuery(inflight[i].args)))

\* a call waits for its body while the inputs already hold another query
C6_Witness ==
  /\ Len(inflight) = 1
  /\ inflight[1].stage = "json"
  /\ isLoading
  /\ CurrentArgs # inflight[1].args
  /\ Len(trim(buildRecordingSearchQuery(CurrentArgs))) > 0

\* the entry is present exactly when canonical is, and is its serialization
EntryAgrees(entry, match) ==
  /\ IsSome(entry) <=> IsSome(match)
  /\ IsSome(match) => entry = Some(JSONstringify(Val(match)))

ErrorMeansNoMatch(err, entry, match) == IsSome(err) => (match = None /\ entry = None)

\* C10: after each step of runSearch that sets canonical or the entry the entry is present
\* exactly when canonical is non-null and is the serialization of canonical; whenever error
\* is non-null, canonical is null and the entry is absent
C10_EntryAgreesWithCanonical ==
  /\ ErrorMeansNoMatch(error, storage, canonical)
  /\ [][/\ (EmptySubmitStep \/ FailedStep \/ MatchStep) => EntryAgrees(storage', canonical')
        /\ ErrorMeansNoMatch(error', storage', canonical')]_vars

\* a match with a release-group is shown and stored
C10_Witness ==
  /\ IsSome(canonical)
  /\ IsSome(Val(canonical).releaseGroup)
  /\ storage = Some(JSONstringify(Val(canonical)))
  /\ storage # Some(JSONstringify(StaleMatch))
  /\ error = None

====
